---- MODULE Spec2Model ----
(***************************************************************************)
(* LinearSystemVisualizer (my-react-app/src/main.jsx): three range sliders *)
(* drive the scalars bScalar, lambda1, lambda2; every change re-renders    *)
(* the vectors xp, x1, x2, diff, their images under the matrix A and the   *)
(* pixel positions of what the two SVG panels draw.                        *)
(*                                                                         *)
(* Numbers are exact fixed-point rationals: the integer n stands for the   *)
(* real n / UNIT.  Every literal of the source (0.1 steps, 0.5, 0.25) and  *)
(* every value computed from them is a whole multiple of 1 / UNIT, so the  *)
(* arithmetic below is the real arithmetic of the source's formulas;       *)
(* IEEE-754 rounding of the JavaScript doubles is not represented.         *)
(***************************************************************************)
EXTENDS Integers, Sequences, FiniteSets, TLC

VARIABLES bScalar, lambda1, lambda2, lastInput, scene,
          start, end, arrowPx, image

vars == <<bScalar, lambda1, lambda2, lastInput, scene,
          start, end, arrowPx, image>>

(* ------------------------------ bounds -------------------------------- *)

\* a change puts a slider on every SliderStride-th position of its 0.1
\* grid or on either end stop
SliderStride == 7

\* integer coordinates c with |c| <= MaxCoord (and the edges of the visible
\* range) are the inputs of the pure helpers toSvg and transform
MaxCoord == 3

(* ---------------------------- fixed point ----------------------------- *)

UNIT == 10 * 32

Num(n) == n * UNIT

\* the decimal literal n/d of the source, e.g. 0.25 = Lit(1, 4)
Lit(n, d) == (n * UNIT) \div d

\* product of two fixed-point numbers
Mul(a, b) == (a * b) \div UNIT

Abs(n) == IF n < 0 THEN -n ELSE n

(* ------------------------- range input value -------------------------- *)

SLIDER_MIN == -4
SLIDER_MAX == 4

SliderStepsWide == (SLIDER_MIN * 10) .. (SLIDER_MAX * 10 + 10)

\* step="0.1": the slider positions, counted in tenths
SliderSteps == (SLIDER_MIN * 10) .. (SLIDER_MAX * 10)

\* the slider positions that are explored
SliderPositions ==
  {k \in SliderSteps : \/ k % SliderStride = 0
                       \/ (k - 1) \notin SliderSteps
                       \/ (k + 1) \notin SliderSteps}

Digits == <<"0", "1", "2", "3", "4", "5", "6", "7", "8", "9">>

DigitVal(c) == (CHOOSE i \in 1..10 : Digits[i] = c) - 1

\* e.target.value of a range input standing at k tenths: "-4", "0.1", "3.5"
RangeValue(k) ==
  LET a    == Abs(k)
      body == IF a % 10 = 0
                THEN <<Digits[(a \div 10) + 1]>>
                ELSE <<Digits[(a \div 10) + 1], ".", Digits[(a % 10) + 1]>>
  IN  IF k < 0 THEN <<"-">> \o body ELSE body

RECURSIVE IntDigits(_)
IntDigits(s) ==
  IF s = <<>> THEN 0
  ELSE 10 * IntDigits(SubSeq(s, 1, Len(s) - 1)) + DigitVal(s[Len(s)])

RECURSIVE FracDigits(_, _)
FracDigits(s, place) ==
  IF s = <<>> THEN 0
  ELSE Lit(DigitVal(Head(s)), place) + FracDigits(Tail(s), place * 10)

\* parseFloat on a decimal string: optional sign, digits, optional fraction
parseFloat(s) ==
  LET neg == s # <<>> /\ Head(s) = "-"
      t   == IF neg THEN Tail(s) ELSE s
      dot == {i \in 1..Len(t) : t[i] = "."}
      d   == IF dot = {} THEN Len(t) + 1 ELSE CHOOSE i \in dot : TRUE
      m   == Num(IntDigits(SubSeq(t, 1, d - 1)))
             + FracDigits(SubSeq(t, d + 1, Len(t)), 10)
  IN  IF neg THEN -m ELSE m

(* ------------------------ coordinate constants ------------------------ *)

VIEWBOX_SIZE == 20
SCALE == 40
ORIGIN == VIEWBOX_SIZE \div 2

toSvgNoFlip(x, y) ==
  [x |-> (Num(ORIGIN) + x) * SCALE,
   y |-> (Num(ORIGIN) + y) * SCALE]

toSvgUnscaledOrigin(x, y) ==
  [x |-> Num(ORIGIN) + x * SCALE,
   y |-> Num(ORIGIN) - y * SCALE]

\* math coordinates -> SVG pixel coordinates
toSvg(x, y) ==
  [x |-> (Num(ORIGIN) + x) * SCALE,
   y |-> (Num(ORIGIN) - y) * SCALE]

transformSwapped(x, y) ==
  [x |-> Mul(Lit(1, 1), x) + Mul(Lit(1, 2), y),
   y |-> Mul(Lit(1, 4), x) + Mul(Lit(1, 2), y)]

\* A = [[1, 0.5], [0.5, 0.25]] applied to (x, y)
transform(x, y) ==
  [x |-> Mul(Lit(1, 1), x) + Mul(Lit(1, 2), y),
   y |-> Mul(Lit(1, 2), x) + Mul(Lit(1, 4), y)]

(* --------------------------- solution model --------------------------- *)

xp == [x |-> bScalar, y |-> Num(0)]

nullBasisWrongSign == [x |-> Lit(1, 2), y |-> Lit(1, 1)]

nullBasis == [x |-> Lit(-1, 2), y |-> Lit(1, 1)]

x1 == [x |-> xp.x + Mul(lambda1, nullBasis.x),
       y |-> xp.y + Mul(lambda1, nullBasis.y)]

x2UsesLambda1 == [x |-> xp.x + Mul(lambda1, nullBasis.x),
                  y |-> xp.y + Mul(lambda1, nullBasis.y)]

x2 == [x |-> xp.x + Mul(lambda2, nullBasis.x),
       y |-> xp.y + Mul(lambda2, nullBasis.y)]

diffAdds == [x |-> x1.x + x2.x, y |-> x1.y + x2.y]

diff == [x |-> x1.x - x2.x, y |-> x1.y - x2.y]

bVec == transform(xp.x, xp.y)
bFromX1 == transform(x1.x, x1.y)
bFromX2 == transform(x2.x, x2.y)
mappedDiff == transform(diff.x, diff.y)

(* ------------------------------ drawing ------------------------------- *)

Pt(x, y) == [x |-> x, y |-> y]

\* <Arrow start end>: both ends go through toSvg
Arrow(s, e) == [s |-> toSvg(s.x, s.y), e |-> toSvg(e.x, e.y)]

\* dashed null-space line, math coordinates of its two ends
NullLineEnds == <<Pt(Num(-5), Num(10)), Pt(Num(5), Num(-10))>>

SolutionLineEndsLong ==
  <<Pt(xp.x - 10 * nullBasis.x, xp.y - 10 * nullBasis.y),
    Pt(xp.x + 10 * nullBasis.x, xp.y + 10 * nullBasis.y)>>

\* solution line through xp, math coordinates of its two ends
SolutionLineEnds ==
  <<Pt(xp.x - 5 * nullBasis.x, xp.y - 5 * nullBasis.y),
    Pt(xp.x + 5 * nullBasis.x, xp.y + 5 * nullBasis.y)>>

\* the state-dependent SVG attributes of one render pass
Render ==
  [nullLine  |-> [p1 |-> toSvg(NullLineEnds[1].x, NullLineEnds[1].y),
                  p2 |-> toSvg(NullLineEnds[2].x, NullLineEnds[2].y)],
   solLine   |-> [p1 |-> toSvg(SolutionLineEnds[1].x, SolutionLineEnds[1].y),
                  p2 |-> toSvg(SolutionLineEnds[2].x, SolutionLineEnds[2].y)],
   arrowX1   |-> Arrow(Pt(Num(0), Num(0)), x1),
   arrowX2   |-> Arrow(Pt(Num(0), Num(0)), x2),
   ghost     |-> [p1 |-> toSvg(x2.x, x2.y), p2 |-> toSvg(x1.x, x1.y)],
   arrowDiff |-> Arrow(Pt(Num(0), Num(0)), diff),
   targetB   |-> toSvg(bVec.x, bVec.y),
   diffDot   |-> toSvg(mappedDiff.x, mappedDiff.y)]

(* ------------------------------ the app ------------------------------- *)

Coords == {c \in -ORIGIN..ORIGIN : Abs(c) <= MaxCoord \/ Abs(c) = ORIGIN}

VisiblePts == {Pt(Num(cx), Num(cy)) : cx \in Coords, cy \in Coords}

NoInput == [control |-> "none", value |-> <<>>]

Init ==
  /\ bScalar = Num(3)
  /\ lambda1 = Num(1)
  /\ lambda2 = Num(-2)
  /\ lastInput = NoInput
  /\ scene = Render
  /\ start = Pt(Num(0), Num(0))
  /\ end = Pt(Num(0), Num(0))
  /\ arrowPx = <<>>
  /\ image = <<>>

\* 'Target b (Position)' range input: onChange -> setBScalar, re-render
OnChangeB(k) ==
  /\ lastInput' = [control |-> "b", value |-> RangeValue(k)]
  /\ bScalar' = parseFloat(RangeValue(k))
  /\ UNCHANGED <<lambda1, lambda2>>
  /\ scene' = Render'
  /\ UNCHANGED <<start, end, arrowPx, image>>

\* 'Solution x1' range input: onChange -> setLambda1, re-render
OnChangeLambda1(k) ==
  /\ lastInput' = [control |-> "x1", value |-> RangeValue(k)]
  /\ lambda1' = parseFloat(RangeValue(k))
  /\ UNCHANGED <<bScalar, lambda2>>
  /\ scene' = Render'
  /\ UNCHANGED <<start, end, arrowPx, image>>

OnChangeLambda2CallsSetLambda1(k) ==
  /\ lastInput' = [control |-> "x2", value |-> RangeValue(k)]
  /\ lambda1' = parseFloat(RangeValue(k))
  /\ UNCHANGED <<bScalar, lambda2>>
  /\ scene' = Render'
  /\ UNCHANGED <<start, end, arrowPx, image>>

\* 'Solution x2' range input: onChange -> setLambda2, re-render
OnChangeLambda2(k) ==
  /\ lastInput' = [control |-> "x2", value |-> RangeValue(k)]
  /\ lambda2' = parseFloat(RangeValue(k))
  /\ UNCHANGED <<bScalar, lambda1>>
  /\ scene' = Render'
  /\ UNCHANGED <<start, end, arrowPx, image>>

Next ==
  \/ \E k \in SliderPositions : OnChangeB(k)
  \/ \E k \in SliderPositions : OnChangeLambda1(k)
  \/ \E k \in SliderPositions : OnChangeLambda2(k)

Spec == Init /\ [][Next]_vars

(* -------------------- the pure helpers on their own ------------------- *)

InitMath ==
  /\ bScalar = Num(3)
  /\ lambda1 = Num(1)
  /\ lambda2 = Num(-2)
  /\ lastInput = NoInput
  /\ scene = Render
  /\ start \in VisiblePts
  /\ end \in VisiblePts
  /\ arrowPx = <<>>
  /\ image = <<>>

\* Arrow's two toSvg calls on its start and end
DrawArrow ==
  /\ arrowPx = <<>>
  /\ arrowPx' = <<Arrow(start, end)>>
  /\ UNCHANGED <<bScalar, lambda1, lambda2, lastInput, scene,
                 start, end, image>>

\* a vector sent to the output space
ApplyTransform ==
  /\ image = <<>>
  /\ image' = <<transform(start.x, start.y)>>
  /\ UNCHANGED <<bScalar, lambda1, lambda2, lastInput, scene,
                 start, end, arrowPx>>

NextMath == DrawArrow \/ ApplyTransform

SpecMath == InitMath /\ [][NextMath]_vars

(* ----------------------------- properties ----------------------------- *)

Zero == Pt(Num(0), Num(0))

Scalars == <<bScalar, lambda1, lambda2>>

\* C1: after any sequence of slider changes the image of the difference,
\* mappedDiff = transform(x1 - x2), is exactly (0, 0).
MappedDiffIsZero == mappedDiff = Zero

MappedDiffIsZeroWitness ==
  /\ lastInput.control = "x2"
  /\ lambda1 = Num(4)
  /\ lambda2 = Lit(-35, 10)
  /\ diff = Pt(Lit(-375, 100), Lit(75, 10))
  /\ mappedDiff = Zero

\* C2: transform(x1) and transform(x2) both equal bVec = transform(xp) =
\* (bScalar, 0.5 * bScalar), so the one circle drawn at toSvg(bVec) stands at
\* the pixel position of A x1 and of A x2.
BothSolutionsMapToB ==
  /\ bVec = Pt(bScalar, Mul(Lit(1, 2), bScalar))
  /\ bFromX1 = bVec
  /\ bFromX2 = bVec
  /\ scene.targetB = toSvg(bFromX1.x, bFromX1.y)
  /\ scene.targetB = toSvg(bFromX2.x, bFromX2.y)

BothSolutionsMapToBWitness ==
  /\ lastInput.control = "x1"
  /\ bScalar = Lit(-14, 10)
  /\ lambda1 = Lit(28, 10)
  /\ x1 # x2
  /\ x1 # xp
  /\ scene.targetB = Pt(Num(344), Num(428))

\* C3: a change event of one slider sets that slider's scalar to the
\* event's value and leaves the other two scalars as they were.
OneScalarPerEvent ==
  [][/\ lastInput'.control = "b" =>
          /\ bScalar' = parseFloat(lastInput'.value)
          /\ UNCHANGED <<lambda1, lambda2>>
     /\ lastInput'.control = "x1" =>
          /\ lambda1' = parseFloat(lastInput'.value)
          /\ UNCHANGED <<bScalar, lambda2>>
     /\ lastInput'.control = "x2" =>
          /\ lambda2' = parseFloat(lastInput'.value)
          /\ UNCHANGED <<bScalar, lambda1>>]_vars

OneScalarPerEventWitness ==
  /\ lastInput = [control |-> "x2", value |-> <<"-", "0", ".", "7">>]
  /\ lambda2 = Lit(-7, 10)
  /\ bScalar = Lit(21, 10)
  /\ lambda1 = Num(1)

\* C4: every stored value of bScalar, lambda1 and lambda2 lies in [-4, 4].
ScalarsInRange ==
  \A i \in 1..3 : Num(-4) <= Scalars[i] /\ Scalars[i] <= Num(4)

ScalarsInRangeWitness ==
  /\ bScalar = Num(-4)
  /\ lambda1 = Num(4)
  /\ lastInput = [control |-> "x1", value |-> <<"4">>]

\* C5: with bScalar = 3, lambda1 = 1, lambda2 = -2 the derived vectors are
\* xp = (3,0), x1 = (2.5,1), x2 = (4,-2), diff = (-1.5,3), mappedDiff = (0,0).
ScenarioOne ==
  (bScalar = Num(3) /\ lambda1 = Num(1) /\ lambda2 = Num(-2)) =>
     /\ nullBasis = Pt(Lit(-1, 2), Num(1))
     /\ xp = Pt(Num(3), Num(0))
     /\ x1 = Pt(Lit(25, 10), Num(1))
     /\ x2 = Pt(Num(4), Num(-2))
     /\ diff = Pt(Lit(-15, 10), Num(3))
     /\ mappedDiff = Zero

ScenarioOneWitness ==
  /\ lastInput = NoInput
  /\ bScalar = Num(3) /\ lambda1 = Num(1) /\ lambda2 = Num(-2)
  /\ scene.arrowX2.e = toSvg(Num(4), Num(-2))

\* C6: the tip of diff = x1 - x2 is t * (-0.5, 1) for some t in [-10, 10]:
\* it lies on the drawn null-space segment from (-5,10) to (5,-10).
DiffOnNullSegment ==
  LET t == diff.y
  IN  /\ diff = Pt(Mul(t, Lit(-1, 2)), t)
      /\ Num(-10) <= t /\ t <= Num(10)
      /\ NullLineEnds[1] = Pt(Mul(Num(10), Lit(-1, 2)), Num(10))
      /\ NullLineEnds[2] = Pt(Mul(Num(-10), Lit(-1, 2)), Num(-10))

DiffOnNullSegmentWitness ==
  /\ lastInput.control # "none"
  /\ lambda1 = Num(-4)
  /\ lambda2 = Num(4)
  /\ diff = Pt(Num(4), Num(-8))

\* C7: toSvg is injective on the visible range, a larger math y gives a
\* smaller pixel y, a larger math x a larger pixel x, and the math origin
\* maps to the pixel (400, 400).
ToSvgInjectiveMonotone ==
  arrowPx # <<>> =>
    LET s == arrowPx[1].s
        e == arrowPx[1].e
    IN  /\ start # end => s # e
        /\ start.y < end.y => s.y > e.y
        /\ start.x < end.x => s.x < e.x
        /\ start.x = end.x => s.x = e.x
        /\ start.y = end.y => s.y = e.y
        /\ start = Zero => s = Pt(Num(400), Num(400))

ToSvgInjectiveMonotoneWitness ==
  /\ arrowPx # <<>>
  /\ start = Pt(Num(-10), Num(-10))
  /\ end = Pt(Num(-10), Num(10))
  /\ arrowPx[1].s = Pt(Num(0), Num(800))
  /\ arrowPx[1].e = Pt(Num(0), Num(0))

\* C8 as stated: transform(v) lies on the line y = 0.5 x and applying
\* transform to it again returns the same vector.
TransformIsProjection ==
  image # <<>> =>
    /\ 2 * image[1].y = image[1].x
    /\ transform(image[1].x, image[1].y) = image[1]

\* C8 amended: transform(v) lies on the line y = 0.5 x, and applying
\* transform to it again scales it by 1.25 (A.A = 1.25 A), so only the zero
\* vector is returned unchanged.
TransformOntoLineScales ==
  image # <<>> =>
    LET w  == image[1]
        ww == transform(w.x, w.y)
    IN  /\ 2 * w.y = w.x
        /\ 2 * ww.y = ww.x
        /\ 4 * ww.x = 5 * w.x
        /\ 4 * ww.y = 5 * w.y
        /\ (ww = w) <=> (w = Zero)

TransformOntoLineScalesWitness ==
  /\ image # <<>>
  /\ start = Pt(Num(2), Num(-3))
  /\ image[1] = Pt(Lit(1, 2), Lit(1, 4))
  /\ transform(image[1].x, image[1].y) = Pt(Lit(5, 8), Lit(5, 16))

\* a pixel on or outside the edge of the viewBox, i.e. a math point on or
\* outside the boundary of the visible range [-10,10] x [-10,10]
OnOrOutsideEdge(p) ==
  \/ p.x <= Num(0) \/ p.x >= Num(800)
  \/ p.y <= Num(0) \/ p.y >= Num(800)

StrictlyInside(p) ==
  /\ Num(0) < p.x /\ p.x < Num(800)
  /\ Num(0) < p.y /\ p.y < Num(800)

\* C9 as stated: the two ends of the null-space line and the two ends of the
\* solution line all lie on or outside the boundary of the visible range.
BothLinesSpanViewport ==
  /\ OnOrOutsideEdge(scene.nullLine.p1)
  /\ OnOrOutsideEdge(scene.nullLine.p2)
  /\ OnOrOutsideEdge(scene.solLine.p1)
  /\ OnOrOutsideEdge(scene.solLine.p2)

\* C9 amended: the null-space line ends on the top and bottom edges of the
\* visible range, at (-5,10) and (5,-10); the solution line is the segment
\* from (bScalar + 2.5, -5) to (bScalar - 2.5, 5), whose two ends lie
\* strictly inside the visible range.
NullLineSpansSolutionLineInside ==
  /\ scene.nullLine.p1 = Pt(Num(200), Num(0))
  /\ scene.nullLine.p2 = Pt(Num(600), Num(800))
  /\ SolutionLineEnds[1] = Pt(bScalar + Lit(25, 10), Num(-5))
  /\ SolutionLineEnds[2] = Pt(bScalar - Lit(25, 10), Num(5))
  /\ scene.solLine.p1 = toSvg(bScalar + Lit(25, 10), Num(-5))
  /\ scene.solLine.p2 = toSvg(bScalar - Lit(25, 10), Num(5))
  /\ StrictlyInside(scene.solLine.p1)
  /\ StrictlyInside(scene.solLine.p2)

NullLineSpansSolutionLineInsideWitness ==
  /\ lastInput.control = "b"
  /\ bScalar = Num(4)
  /\ scene.solLine.p1 = Pt(Num(660), Num(600))
  /\ scene.solLine.p2 = Pt(Num(460), Num(200))

InViewBox(p) ==
  /\ Num(0) <= p.x /\ p.x <= Num(800)
  /\ Num(0) <= p.y /\ p.y <= Num(800)

\* p lies on the segment from a to b
OnSegment(p, a, b) ==
  /\ (p.x - a.x) * (b.y - a.y) = (p.y - a.y) * (b.x - a.x)
  /\ (a.x <= p.x /\ p.x <= b.x) \/ (b.x <= p.x /\ p.x <= a.x)
  /\ (a.y <= p.y /\ p.y <= b.y) \/ (b.y <= p.y /\ p.y <= a.y)

\* C10: every state-dependent point that is drawn has pixel coordinates in
\* the viewBox [0,800] x [0,800], and the tips of x1 and x2 lie on the drawn
\* solution-line segment.
DrawnPointsInViewBox ==
  /\ InViewBox(scene.arrowX1.e)
  /\ InViewBox(scene.arrowX2.e)
  /\ InViewBox(scene.arrowDiff.e)
  /\ InViewBox(scene.ghost.p1)
  /\ InViewBox(scene.ghost.p2)
  /\ InViewBox(scene.solLine.p1)
  /\ InViewBox(scene.solLine.p2)
  /\ InViewBox(scene.targetB)
  /\ InViewBox(scene.diffDot)
  /\ OnSegment(x1, SolutionLineEnds[1], SolutionLineEnds[2])
  /\ OnSegment(x2, SolutionLineEnds[1], SolutionLineEnds[2])
  /\ scene.arrowX1.e = toSvg(x1.x, x1.y)
  /\ scene.arrowX2.e = toSvg(x2.x, x2.y)

DrawnPointsInViewBoxWitness ==
  /\ lastInput.control # "none"
  /\ bScalar = Num(-4)
  /\ lambda1 = Num(4)
  /\ x1 = Pt(Num(-6), Num(4))
  /\ scene.arrowX1.e = Pt(Num(160), Num(240))
  /\ scene.solLine.p2 = Pt(Num(140), Num(200))

====
